---- MODULE Spec2Model ----
(***************************************************************************)
(* websudoku-dl: one run of main (src/main.rs).  A document is fetched,    *)
(* PuzzleExtractor::extract scans it with input_regex and builds a Puzzle, *)
(* write_csv creates the output file and Puzzle::write_masked_puzzle       *)
(* writes the masked grid to it, one sink write at a time.                 *)
(*                                                                         *)
(* Text is a sequence of one-character strings.  The alphabet is ASCII.    *)
(***************************************************************************)
EXTENDS Integers, Sequences, FiniteSets, TLC

VARIABLES
    pc,          \* position of main: "start", "built", "fetched", "extracted",
                 \* "writing", "done", "failed"
    difficulty,  \* the Difficulty returned by Opts::params
    response,    \* the body the service will answer with, as a sequence of fragments
    content,     \* main's `content`: the fetched text
    matches,     \* the matches captures_iter yielded in build_extraction_map
    map,         \* extract's `map`: the extraction map
    puzzle,      \* main's `puzzle`: the Option<Puzzle> extract returned
    file,        \* the output file on disk: whether it exists, its name, its bytes
    cursor,      \* write_masked_puzzle's loop position: row, idx, part of the cell
    sink,        \* what the sink has seen: write_all calls, failed calls
    exit         \* how the run ended: "running", "ok", "error", "panic"

vars ==
    <<pc, difficulty, response, content, matches, map, puzzle, file, cursor, sink, exit>>

(***************************************************************************)
(* Bounds of the model.                                                    *)
(***************************************************************************)
MaxTags == 3
NumSeeds == 2

(***************************************************************************)
(* Program constants.                                                      *)
(***************************************************************************)
RowLen == 9
LastIdx == 8
U8 == 256
GridCells == RowLen * RowLen

Min(a, b) == IF a <= b THEN a ELSE b
SetMin(S) == CHOOSE x \in S : \A y \in S : x <= y
SetMax(S) == CHOOSE x \in S : \A y \in S : y <= x

RECURSIVE Flatten(_)
Flatten(ss) == IF ss = <<>> THEN <<>> ELSE Head(ss) \o Flatten(Tail(ss))

(***************************************************************************)
(* Characters.                                                             *)
(***************************************************************************)
DigitChar == <<"0", "1", "2", "3", "4", "5", "6", "7", "8", "9">>
DigitChars == {DigitChar[i] : i \in 1..10}
SpaceChars == {" ", "\n", "\t"}

\* The byte of an ASCII digit ('0' is 48).
Byte(c) == 47 + (CHOOSE i \in 1..10 : DigitChar[i] = c)

\* Simple case folding of the letters the documents use.
Fold(c) ==
    CASE c = "I" -> "i" [] c = "N" -> "n" [] c = "P" -> "p" [] c = "U" -> "u"
      [] c = "T" -> "t" [] c = "D" -> "d" [] c = "V" -> "v" [] c = "A" -> "a"
      [] c = "L" -> "l" [] c = "E" -> "e" [] c = "H" -> "h" [] c = "M" -> "m"
      [] c = "Y" -> "y" [] OTHER -> c

(***************************************************************************)
(* input_regex: <input.+?id="(\S+)".+?value="(\d+)"  case-insensitive,     *)
(* dot matches new line, leftmost-first (backtracking) semantics.          *)
(***************************************************************************)
LitInput == <<"<", "i", "n", "p", "u", "t">>
LitId == <<"i", "d", "=", "\"">>
LitValue == <<"v", "a", "l", "u", "e", "=", "\"">>

\* The literal lit, compared case-insensitively, occupies s[p .. p+Len(lit)-1].
LitAt(s, p, lit) ==
    /\ p >= 1
    /\ p + Len(lit) - 1 <= Len(s)
    /\ \A j \in 1..Len(lit) : Fold(s[p + j - 1]) = lit[j]

\* The last position of the longest run of characters of class cls from p on
\* (p - 1 when s[p] is not in the class).
RECURSIVE RunEnd(_, _, _)
RunEnd(s, p, nonSpace) ==
    IF p > Len(s) THEN p - 1
    ELSE IF (IF nonSpace THEN s[p] \notin SpaceChars ELSE s[p] \in DigitChars)
         THEN RunEnd(s, p + 1, nonSpace)
         ELSE p - 1

\* value="(\d+)" matches at v: the literal, a greedy run of digits, a quote.
ValueAt(s, v) ==
    /\ LitAt(s, v, LitValue)
    /\ LET d == v + Len(LitValue)
           f == RunEnd(s, d, FALSE)
       IN  f >= d /\ f + 1 <= Len(s) /\ s[f + 1] = "\""

\* .+?value="(\d+)" from position from: the lazy dot takes at least one
\* character and as few as possible.  0 when there is no match.
FirstValue(s, from) ==
    LET C == {v \in (from + 1)..Len(s) : ValueAt(s, v)}
    IN  IF C = {} THEN 0 ELSE SetMin(C)

\* (\S+)" from t, with the rest of the pattern matching after the quote: the
\* greedy run gives back characters until a quote follows and the rest matches.
TokenEnds(s, t) ==
    {e \in t..(RunEnd(s, t, TRUE) - 1) : s[e + 1] = "\"" /\ FirstValue(s, e + 2) # 0}

\* id="(\S+)".+?value="(\d+)" matches at q.
IdAt(s, q) == LitAt(s, q, LitId) /\ TokenEnds(s, q + Len(LitId)) # {}

\* Positions q of id=" that the lazy .+? after <input (at p) can reach.
IdStarts(s, p) == {q \in (p + Len(LitInput) + 1)..Len(s) : IdAt(s, q)}

\* The whole pattern matches at p.
MatchAt(s, p) == LitAt(s, p, LitInput) /\ IdStarts(s, p) # {}

\* The captures of the match at p, in the preference order of the pattern:
\* earliest id=", longest token, earliest value=", longest digits.
Captures(s, p) ==
    LET q == SetMin(IdStarts(s, p))
        t == q + Len(LitId)
        e == SetMax(TokenEnds(s, t))
        v == FirstValue(s, e + 2)
        d == v + Len(LitValue)
        f == RunEnd(s, d, FALSE)
    IN  [start |-> p, end |-> f + 1,
         token |-> SubSeq(s, t, e), digits |-> SubSeq(s, d, f)]

\* Regex::captures_iter: successive non-overlapping matches, each the leftmost
\* one starting at or after the end of the previous match.
\* The leftmost position among cands where the pattern matches, 0 if none.
RECURSIVE FirstMatch(_, _)
FirstMatch(s, cands) ==
    IF cands = {} THEN 0
    ELSE LET p == SetMin(cands)
         IN  IF MatchAt(s, p) THEN p ELSE FirstMatch(s, cands \ {p})

RECURSIVE CapturesIter(_, _)
CapturesIter(s, from) ==
    LET p == FirstMatch(s, {x \in from..Len(s) : LitAt(s, x, LitInput)})
    IN  IF p = 0 THEN <<>>
        ELSE LET m == Captures(s, p)
             IN  <<m>> \o CapturesIter(s, m.end + 1)

(***************************************************************************)
(* PuzzleExtractor                                                         *)
(***************************************************************************)
PUZZLE_ID == <<"p", "i", "d">>
SOLUTION == <<"c", "h", "e", "a", "t">>
MASK == <<"e", "d", "i", "t", "m", "a", "s", "k">>

EmptyMap == [k \in {} |-> <<>>]

\* Faulty variant: the first value of a key is kept.
Insert_KeepFirst(m, k, v) ==
    IF k \in DOMAIN m THEN m ELSE [x \in DOMAIN m \cup {k} |-> IF x = k THEN v ELSE m[x]]

\* HashMap::insert: the new value replaces the one the key had.
Insert(m, k, v) == [x \in DOMAIN m \cup {k} |-> IF x = k THEN v ELSE m[x]]

\* collect() into a HashMap: the pairs are inserted in iteration order.
RECURSIVE Collect(_, _)
Collect(ms, m) ==
    IF ms = <<>> THEN m
    ELSE Collect(Tail(ms), Insert(m, Head(ms).token, Head(ms).digits))

\* captures_iter(content).map(..).collect(), of the matches ms that
\* captures_iter yields
build_extraction_map(ms) == Collect(ms, EmptyMap)

\* Faulty variant: the bytes are taken as they are.
SolutionOf_Raw(str) == [i \in 1..Len(str) |-> Byte(str[i])]

\* bytes().map(|u| u - b'0'), on u8.  The pattern captures digits only, so
\* the subtraction never goes below zero.
SolutionOf(str) == [i \in 1..Len(str) |-> (Byte(str[i]) - Byte("0")) % U8]

\* bytes().map(|u| u == b'1')
MaskOf(str) == [i \in 1..Len(str) |-> Byte(str[i]) = Byte("1")]

None == [some |-> FALSE]
Some(v) == [some |-> TRUE, val |-> v]

\* Faulty variant: a missing cheat gives an empty solution instead of None.
extract_Partial(diff, m) ==
    IF PUZZLE_ID \notin DOMAIN m THEN None
    ELSE IF MASK \notin DOMAIN m THEN None
    ELSE Some([difficulty |-> diff,
               id |-> m[PUZZLE_ID],
               solution |-> IF SOLUTION \in DOMAIN m THEN SolutionOf(m[SOLUTION])
                            ELSE <<>>,
               mask |-> MaskOf(m[MASK])])

\* extract, once its local `map` (here m) is built: each `?` returns None when the
\* key is not in the map.
extract(diff, m) ==
    IF PUZZLE_ID \notin DOMAIN m THEN None
    ELSE IF SOLUTION \notin DOMAIN m THEN None
    ELSE IF MASK \notin DOMAIN m THEN None
    ELSE Some([difficulty |-> diff,
               id |-> m[PUZZLE_ID],
               solution |-> SolutionOf(m[SOLUTION]),
               mask |-> MaskOf(m[MASK])])

(***************************************************************************)
(* Puzzle::write_masked_puzzle                                             *)
(***************************************************************************)
\* slice.chunks(9): consecutive groups of 9, the last one possibly shorter.
RECURSIVE ChunksOf(_)
ChunksOf(seq) ==
    IF seq = <<>> THEN <<>>
    ELSE IF Len(seq) <= RowLen THEN <<seq>>
    ELSE <<SubSeq(seq, 1, RowLen)>> \o ChunksOf(SubSeq(seq, RowLen + 1, Len(seq)))

\* Faulty variant: the short trailing group is kept.
Chunks_NoFilter(seq) == ChunksOf(seq)

\* chunks(9).filter(|&x| x.len() == 9)
Chunks(seq) == SelectSeq(ChunksOf(seq), LAMBDA x : Len(x) = RowLen)

\* Iterator::zip: pairs by position, as many as the shorter side has.
Zip(a, b) == [i \in 1..Min(Len(a), Len(b)) |-> <<a[i], b[i]>>]

\* rows.zip(row_masks)
Rows(p) == Zip(Chunks(p.solution), Chunks(p.mask))

\* Display for u8: the decimal digits of the value.
RECURSIVE Decimal(_)
Decimal(n) ==
    IF n < 10 THEN <<DigitChar[n + 1]>>
    ELSE Decimal(n \div 10) \o <<DigitChar[(n % 10) + 1]>>

\* write!(w, "{},", value): the formatted value, then the literal piece, each
\* handed to the sink by its own write_all.
WriteValueComma(value) == <<Decimal(value), <<",">>>>

\* Faulty variant: the last column is treated like the others.
CellWrites_Uniform(idx, value, can_edit) ==
    IF can_edit THEN << <<",">> >> ELSE WriteValueComma(value)

\* Faulty variant: the comma after a given last column is left out.
CellWrites_Trimmed(idx, value, can_edit) ==
    IF idx = LastIdx
    THEN IF ~can_edit THEN <<Decimal(value)>> ELSE <<>>
    ELSE IF can_edit THEN << <<",">> >> ELSE WriteValueComma(value)

\* The body of the inner loop for one cell: the buffers it writes, in order.
CellWrites(idx, value, can_edit) ==
    IF idx = LastIdx
    THEN IF ~can_edit THEN WriteValueComma(value) ELSE <<>>
    ELSE IF can_edit THEN << <<",">> >> ELSE WriteValueComma(value)

\* row.iter().zip(mask).enumerate() of the row pair the cursor is in.
Cells(p, cur) == Zip(Rows(p)[cur.row + 1][1], Rows(p)[cur.row + 1][2])

CellOf(p, cur) ==
    LET c == Cells(p, cur)[cur.idx + 1] IN CellWrites(cur.idx, c[1], c[2])

\* The loops run on from cur to the next point where a write is pending: a
\* buffer of a cell, the newline ending a row (idx past the row's cells), or
\* the end of the outer loop (row past the last row pair).
RECURSIVE Advance(_, _)
Advance(p, cur) ==
    IF cur.row >= Len(Rows(p)) THEN cur
    ELSE IF cur.idx >= Len(Cells(p, cur)) THEN cur
    ELSE IF cur.part < Len(CellOf(p, cur)) THEN cur
    ELSE Advance(p, [row |-> cur.row, idx |-> cur.idx + 1, part |-> 0])

Finished(p, cur) == cur.row >= Len(Rows(p))

\* The buffer of the pending write.
Pending(p, cur) ==
    IF cur.idx >= Len(Cells(p, cur)) THEN <<"\n">>
    ELSE CellOf(p, cur)[cur.part + 1]

\* The cursor once the pending write has returned Ok.
AfterWrite(p, cur) ==
    IF cur.idx >= Len(Cells(p, cur))
    THEN Advance(p, [row |-> cur.row + 1, idx |-> 0, part |-> 0])
    ELSE Advance(p, [row |-> cur.row, idx |-> cur.idx, part |-> cur.part + 1])

StartCursor == [row |-> 0, idx |-> 0, part |-> 0]

(***************************************************************************)
(* The documents the service answers with.  A document is a sequence of    *)
(* fragments (tags); the program sees only the flattened text.             *)
(***************************************************************************)
\* Two of the four values of Difficulty; the value only names the file.
Difficulties == {"Easy", "Evil"}

OpenPlain == <<"<", "i", "n", "p", "u", "t", " ", "i", "d", "=", "\"">>
MidPlain == <<"\"", " ", "v", "a", "l", "u", "e", "=", "\"">>
OpenUpper ==
    <<"<", "I", "N", "P", "U", "T", " ", "N", "A", "M", "E", "=", "x", " ",
      "I", "D", "=", "\"">>
MidUpper ==
    <<"\"", " ", "T", "Y", "P", "E", "=", "h", "\n",
      "V", "A", "L", "U", "E", "=", "\"">>
Close == <<"\"", ">">>

\* <input id="tok" value="val">
PlainTag(tok, val) == OpenPlain \o tok \o MidPlain \o val \o Close
\* <INPUT NAME=x ID="tok" TYPE=h(newline)VALUE="val">
UpperTag(tok, val) == OpenUpper \o tok \o MidUpper \o val \o Close
\* <input id="tok">
NoValueTag(tok) == OpenPlain \o tok \o Close
\* <p>
Para == <<"<", "p", ">">>

\* A string of len digits '1'..'9', varied by seed.
DigitString(len, seed) ==
    [i \in 1..len |-> DigitChar[2 + ((seed + i * (seed + 1)) % 9)]]

\* A string of len flags: all '0' (pat 0), all '1' (pat 1), or mixed.
FlagString(len, pat) ==
    [i \in 1..len |->
        IF pat = 0 THEN "0"
        ELSE IF pat = 1 THEN "1"
        ELSE IF (i * pat) % 3 = 0 THEN "1" ELSE "0"]

Seeds == 0..(NumSeeds - 1)
FlagPatterns == 0..(NumSeeds + 1)
ValueLens == {RowLen - 1, RowLen + 1, 2 * RowLen, GridCells}

TagPalette ==
    { PlainTag(PUZZLE_ID, <<"7">>),
      UpperTag(PUZZLE_ID, <<"4", "2">>),
      PlainTag(SOLUTION, DigitString(RowLen, 0)),
      UpperTag(SOLUTION, DigitString(RowLen + 1, 1)),
      PlainTag(MASK, FlagString(RowLen, 2)),
      UpperTag(MASK, FlagString(2 * RowLen, 1)),
      NoValueTag(<<"f", "0">>),
      Para }

\* Any sequence of at most MaxTags fragments of the palette.
PaletteDocs == UNION {[1..n -> TagPalette] : n \in 0..MaxTags}

\* The three required fields, with values of the lengths and patterns above.
GridDocs ==
    { <<PlainTag(PUZZLE_ID, <<"7">>),
        UpperTag(SOLUTION, DigitString(ls, seed)),
        PlainTag(MASK, FlagString(lm, pat))>> :
      ls \in ValueLens, lm \in ValueLens, seed \in Seeds, pat \in FlagPatterns }

\* One row of digits with every one of the 2^9 masks.
RowDocs ==
    { <<PlainTag(PUZZLE_ID, <<"7">>),
        PlainTag(SOLUTION, DigitString(RowLen, 0)),
        PlainTag(MASK, [i \in 1..RowLen |-> IF m[i] THEN "1" ELSE "0"])>> :
      m \in [1..RowLen -> BOOLEAN] }

\* The regression fixture of test::input_regex_works: its pid, and the cheat
\* and editmask strings of its expected solution and mask.
FixturePid == <<"7", "0", "4", "2", "1", "0", "0", "2", "6", "6">>
FixtureCheat ==
    <<
      "9", "8", "4", "2", "7", "3", "6", "5", "1", "7", "1", "5", "6", "8", "4", "9", "2", "3", "3", "2", "6", "9", "5", "1", "7", "4", "8",
      "8", "4", "9", "7", "3", "2", "1", "6", "5", "6", "3", "7", "8", "1", "5", "2", "9", "4", "2", "5", "1", "4", "6", "9", "3", "8", "7",
      "1", "9", "3", "5", "4", "6", "8", "7", "2", "5", "7", "2", "3", "9", "8", "4", "1", "6", "4", "6", "8", "1", "2", "7", "5", "3", "9" >>
FixtureMask ==
    <<
      "1", "1", "1", "1", "0", "1", "0", "1", "1", "1", "0", "0", "0", "1", "1", "0", "1", "1", "0", "1", "1", "0", "1", "1", "0", "1", "1",
      "1", "0", "0", "1", "1", "0", "1", "0", "0", "0", "1", "0", "0", "0", "0", "0", "1", "0", "0", "0", "1", "0", "1", "1", "0", "0", "1",
      "1", "1", "0", "1", "1", "0", "1", "1", "0", "1", "1", "0", "1", "1", "0", "0", "0", "1", "1", "1", "0", "1", "0", "1", "1", "1", "1" >>
FixtureDoc ==
    <<Para, UpperTag(PUZZLE_ID, FixturePid), UpperTag(SOLUTION, FixtureCheat),
      UpperTag(MASK, FixtureMask)>>

\* The three required fields once, and one more fragment before or after them.
Triple ==
    <<PlainTag(PUZZLE_ID, <<"7">>), PlainTag(SOLUTION, DigitString(RowLen, 0)),
      PlainTag(MASK, FlagString(RowLen, 2))>>
ExtraDocs ==
    {<<t>> \o Triple : t \in TagPalette} \cup {Triple \o <<t>> : t \in TagPalette}

Documents == PaletteDocs \cup GridDocs \cup RowDocs \cup ExtraDocs \cup {FixtureDoc}

(***************************************************************************)
(* main                                                                    *)
(***************************************************************************)
NoFile == [exists |-> FALSE, name |-> <<>>, bytes |-> <<>>]

\* format!("{} {}.csv", puzzle.difficulty, puzzle.id)
FileName(p) == <<p.difficulty>> \o <<" ">> \o p.id \o <<".", "c", "s", "v">>

Init ==
    /\ pc = "start"
    /\ difficulty \in Difficulties
    /\ response \in Documents
    /\ content = <<>>
    /\ matches = <<>>
    /\ map = EmptyMap
    /\ puzzle = None
    /\ file = NoFile
    /\ cursor = StartCursor
    /\ sink = [calls |-> 0, errors |-> 0]
    /\ exit = "running"

\* Faulty variant: the error is dropped and main returns Ok.
Fail_Swallowed(how) ==
    /\ pc' = "failed"
    /\ exit' = "ok"

\* `?` on an Err in main: the run ends with the error.
Fail(how) ==
    /\ pc' = "failed"
    /\ exit' = how

\* Client::builder().user_agent(USER_AGENT).build()?
BuildClient ==
    /\ pc = "start"
    /\ \/ pc' = "built" /\ exit' = exit
       \/ Fail("error")
    /\ UNCHANGED <<difficulty, response, content, matches, map, puzzle, file, cursor, sink>>

\* client.get(&url).send()?.text()?
Fetch ==
    /\ pc = "built"
    /\ \/ pc' = "fetched" /\ exit' = exit /\ content' = Flatten(response)
       \/ Fail("error") /\ content' = content
    /\ UNCHANGED <<difficulty, response, matches, map, puzzle, file, cursor, sink>>

\* Faulty variant: main goes on whatever extract returned.
Expect_Unchecked(opt) == "extracted"

\* Option::expect: main goes on with the Puzzle, or panics on None.
Expect(opt) == IF opt.some THEN "extracted" ELSE "failed"

\* extractor.extract(difficulty, &content).expect("Unable to extract puzzle data")
Extract ==
    /\ pc = "fetched"
    /\ matches' = CapturesIter(content, 1)
    /\ map' = build_extraction_map(matches')
    /\ puzzle' = extract(difficulty, map')
    /\ pc' = Expect(puzzle')
    /\ exit' = IF pc' = "failed" THEN "panic" ELSE exit
    /\ UNCHANGED <<difficulty, response, content, file, cursor, sink>>

\* File::create(..)?, then write_masked_puzzle runs up to its first
\* write; with no row pair it returns Ok at once and so does main.
write_csv ==
    /\ pc = "extracted"
    /\ \/ /\ file' = [exists |-> TRUE, name |-> FileName(puzzle.val), bytes |-> <<>>]
          /\ cursor' = Advance(puzzle.val, StartCursor)
          /\ IF Finished(puzzle.val, cursor')
             THEN pc' = "done" /\ exit' = "ok"
             ELSE pc' = "writing" /\ exit' = exit
       \/ Fail("error") /\ UNCHANGED <<file, cursor>>
    /\ UNCHANGED <<difficulty, response, content, matches, map, puzzle, sink>>

\* Faulty variant: the result of a write is ignored.
Propagate_Ignored(ok, p, cur) ==
    IF Finished(p, AfterWrite(p, cur)) THEN "done" ELSE "writing"

\* `?` on the result of a write: Ok goes on with the loops, Err returns.
Propagate(ok, p, cur) ==
    IF ~ok THEN "failed"
    ELSE IF Finished(p, AfterWrite(p, cur)) THEN "done" ELSE "writing"

\* One write_all (or write!) of write_masked_puzzle on the file.  write_all
\* either hands over the whole buffer, or fails having written fewer bytes.
WriteAll ==
    /\ pc = "writing"
    /\ LET buf == Pending(puzzle.val, cursor)
       IN  \/ /\ file' = [file EXCEPT !.bytes = @ \o buf]
              /\ sink' = [sink EXCEPT !.calls = @ + 1]
              /\ pc' = Propagate(TRUE, puzzle.val, cursor)
              /\ cursor' = AfterWrite(puzzle.val, cursor)
              /\ exit' = IF pc' = "done" THEN "ok" ELSE exit
           \/ \E k \in 0..(Len(buf) - 1) :
              /\ file' = [file EXCEPT !.bytes = @ \o SubSeq(buf, 1, k)]
              /\ sink' = [calls |-> sink.calls + 1, errors |-> sink.errors + 1]
              /\ pc' = Propagate(FALSE, puzzle.val, cursor)
              /\ cursor' = IF pc' = "failed" THEN cursor
                           ELSE AfterWrite(puzzle.val, cursor)
              /\ exit' = IF pc' = "failed" THEN "error"
                         ELSE IF pc' = "done" THEN "ok" ELSE exit
    /\ UNCHANGED <<difficulty, response, content, matches, map, puzzle>>

Next == BuildClient \/ Fetch \/ Extract \/ write_csv \/ WriteAll

Spec == Init /\ [][Next]_vars

(***************************************************************************)
(* Vocabulary of the properties.                                           *)
(***************************************************************************)
\* extract has returned: main went on with the Puzzle, or panicked on None.
Extracted == pc = "extracted" \/ (pc = "failed" /\ exit = "panic")
Ended == pc \in {"done", "failed"}

Required == {PUZZLE_ID, SOLUTION, MASK}

\* The number a digit character stands for.
IntOf(c) ==
    CASE c = "0" -> 0 [] c = "1" -> 1 [] c = "2" -> 2 [] c = "3" -> 3
      [] c = "4" -> 4 [] c = "5" -> 5 [] c = "6" -> 6 [] c = "7" -> 7
      [] c = "8" -> 8 [] c = "9" -> 9

\* The digits of the last match whose token is tok.
LastDigits(ms, tok) ==
    ms[SetMax({i \in 1..Len(ms) : ms[i].token = tok})].digits

IsPrefix(a, b) == Len(a) <= Len(b) /\ a = SubSeq(b, 1, Len(a))

\* The text of a cell of the masked grid: columns 0-7 give a bare comma for an
\* editable cell and digit-comma for a given one; column 8 gives digit-comma
\* for a given cell and nothing for an editable one.
SpecCell(col, digit, editable) ==
    IF editable THEN (IF col <= 7 THEN <<",">> ELSE <<>>)
    ELSE <<DigitChar[digit + 1], ",">>

SpecLine(row, mask) ==
    Flatten([c \in 1..RowLen |-> SpecCell(c - 1, row[c], mask[c])]) \o <<"\n">>

\* Complete row pairs of a puzzle, and the slice of a sequence that is row k.
NumRowPairs(p) == Min(Len(p.solution) \div RowLen, Len(p.mask) \div RowLen)
RowSlice(seq, k) == SubSeq(seq, RowLen * (k - 1) + 1, RowLen * k)

SpecOutput(p) ==
    Flatten([k \in 1..NumRowPairs(p) |->
                SpecLine(RowSlice(p.solution, k), RowSlice(p.mask, k))])

\* The bytes of a file as lines, each with its newline; a last element without
\* one when the bytes do not end in a newline.
RECURSIVE SplitLines(_, _)
SplitLines(bytes, cur) ==
    IF bytes = <<>> THEN (IF cur = <<>> THEN <<>> ELSE <<cur>>)
    ELSE IF Head(bytes) = "\n"
         THEN <<cur \o <<"\n">>>> \o SplitLines(Tail(bytes), <<>>)
         ELSE SplitLines(Tail(bytes), cur \o <<Head(bytes)>>)

Lines(bytes) == SplitLines(bytes, <<>>)

AllEditable(p, k) == \A c \in 1..RowLen : RowSlice(p.mask, k)[c]
AllGiven(p, k) == \A c \in 1..RowLen : ~RowSlice(p.mask, k)[c]

(***************************************************************************)
(* C1: extract returns None whenever one of pid, cheat, editmask is not    *)
(* in the extraction map, whatever the other two hold; it returns a Puzzle *)
(* only when all three are there, and then every field of it is filled.    *)
(***************************************************************************)
C1_ExtractAllOrNothing ==
    Extracted =>
        /\ puzzle.some <=> Required \subseteq DOMAIN map
        /\ ~(Required \subseteq DOMAIN map) => puzzle = None
        /\ puzzle.some =>
              /\ DOMAIN puzzle.val = {"difficulty", "id", "solution", "mask"}
              /\ puzzle.val.id = map[PUZZLE_ID]
              /\ Len(puzzle.val.solution) = Len(map[SOLUTION])
              /\ Len(puzzle.val.mask) = Len(map[MASK])

\* pid and editmask are in the map, cheat is not, and extract returned None.
C1_Witness ==
    /\ Extracted
    /\ ~puzzle.some
    /\ {PUZZLE_ID, MASK} \subseteq DOMAIN map
    /\ SOLUTION \notin DOMAIN map

\* The map holds a pid and 81-character cheat and editmask strings over
\* '1'..'9' and '0'/'1'.
C2_WellFormed ==
    /\ Required \subseteq DOMAIN map
    /\ Len(map[SOLUTION]) = GridCells
    /\ Len(map[MASK]) = GridCells
    /\ \A i \in 1..GridCells : map[SOLUTION][i] \in DigitChars \ {"0"}
    /\ \A i \in 1..GridCells : map[MASK][i] \in {"0", "1"}

(***************************************************************************)
(* C2: when the map holds a pid, an 81-character cheat over '1'..'9' and   *)
(* an 81-character editmask over '0'/'1', extract returns a Puzzle with    *)
(* id the pid, solution[i] = int(cheat[i]) and mask[i] = (editmask[i] =    *)
(* '1') for each of the 81 positions.                                      *)
(***************************************************************************)
C2_Conversion ==
    (Extracted /\ C2_WellFormed) =>
        /\ puzzle.some
        /\ puzzle.val.id = map[PUZZLE_ID]
        /\ Len(puzzle.val.solution) = GridCells
        /\ Len(puzzle.val.mask) = GridCells
        /\ \A i \in 1..GridCells :
              /\ puzzle.val.solution[i] = IntOf(map[SOLUTION][i])
              /\ puzzle.val.mask[i] = (map[MASK][i] = "1")

\* A well-formed document has been extracted, with given and editable cells.
C2_Witness ==
    /\ Extracted
    /\ C2_WellFormed
    /\ \E i, j \in 1..GridCells : map[MASK][i] = "1" /\ map[MASK][j] = "0"
    /\ \E i, j \in 1..GridCells : map[SOLUTION][i] # map[SOLUTION][j]

(***************************************************************************)
(* C3: every complete row pair is emitted as its line: per column 0..7 a   *)
(* bare comma (editable) or digit-comma (given), for column 8 digit-comma  *)
(* (given) or nothing (editable), then one newline.                        *)
(***************************************************************************)
C3_RowLine ==
    pc = "done" =>
        LET lines == Lines(file.bytes)
        IN  \A k \in 1..NumRowPairs(puzzle.val) :
                /\ k <= Len(lines)
                /\ lines[k] = SpecLine(RowSlice(puzzle.val.solution, k),
                                       RowSlice(puzzle.val.mask, k))

\* A row of given cells only was written as nine digit-comma pairs.
C3_Witness ==
    /\ pc = "done"
    /\ \E k \in 1..NumRowPairs(puzzle.val) :
          /\ AllGiven(puzzle.val, k)
          /\ Len(Lines(file.bytes)[k]) = 2 * RowLen + 1

(***************************************************************************)
(* C4: a complete row whose 9 mask values are all true is emitted as 8     *)
(* commas and a newline, with no digit, whatever its solution values.      *)
(***************************************************************************)
C4_AllEditableRow ==
    pc = "done" =>
        LET lines == Lines(file.bytes)
        IN  \A k \in 1..NumRowPairs(puzzle.val) :
                AllEditable(puzzle.val, k) =>
                    /\ k <= Len(lines)
                    /\ lines[k] = <<",", ",", ",", ",", ",", ",", ",", ",", "\n">>

\* A row of editable cells only has been written.
C4_Witness ==
    /\ pc = "done"
    /\ \E k \in 1..NumRowPairs(puzzle.val) : AllEditable(puzzle.val, k)

(***************************************************************************)
(* C5: a successful write emits min(floor(s/9), floor(m/9)) lines, each    *)
(* ended by a newline: line k is built of solution[9k..9k+8] and           *)
(* mask[9k..9k+8]; a trailing group of fewer than 9 and the rows of the    *)
(* longer sequence beyond the shorter give no line.                        *)
(***************************************************************************)
C5_LineCount ==
    pc = "done" =>
        /\ Len(Lines(file.bytes)) = NumRowPairs(puzzle.val)
        /\ Cardinality({i \in 1..Len(file.bytes) : file.bytes[i] = "\n"})
              = NumRowPairs(puzzle.val)
        /\ file.bytes = SpecOutput(puzzle.val)

\* Written: a puzzle with a trailing group under 9 in the solution and more
\* complete rows in the mask than in the solution.
C5_Witness ==
    /\ pc = "done"
    /\ Len(puzzle.val.solution) % RowLen # 0
    /\ Len(puzzle.val.solution) >= RowLen
    /\ Len(puzzle.val.mask) \div RowLen > Len(puzzle.val.solution) \div RowLen
    /\ Len(file.bytes) > 0

\* The ways a run can end.
C6_Complete == exit = "ok" /\ file.exists /\ file.bytes = SpecOutput(puzzle.val)
C6_NoFile == exit \in {"error", "panic"} /\ ~file.exists /\ file.bytes = <<>>
C6_Partial ==
    /\ exit = "error"
    /\ sink.errors = 1
    /\ file.exists
    /\ IsPrefix(file.bytes, SpecOutput(puzzle.val))
    /\ Len(file.bytes) < Len(SpecOutput(puzzle.val))

(***************************************************************************)
(* C6: every run ends with a complete output file, or with no output file  *)
(* and a reported failure.                                                 *)
(***************************************************************************)
C6_BinaryOutcome == Ended => (C6_Complete \/ C6_NoFile)

\* C6 as amended: every run ends with a complete output file, or with no
\* output file and a reported failure, or, when a write to the created file
\* failed, with a reported failure and a file holding a proper prefix of the
\* complete output.
C6_ThreeOutcomes == Ended => (C6_Complete \/ C6_NoFile \/ C6_Partial)

\* A write failed after at least one row had been written.
C6_Witness ==
    /\ pc = "failed"
    /\ C6_Partial
    /\ \E i \in 1..Len(file.bytes) : file.bytes[i] = "\n"

(***************************************************************************)
(* C7: the file is created and the sink written only after extract has     *)
(* returned a Puzzle; when extract returns None the run fails there, with   *)
(* no file and no byte written.                                            *)
(***************************************************************************)
C7_NoFileWithoutPuzzle ==
    /\ ~puzzle.some => (~file.exists /\ file.bytes = <<>> /\ sink.calls = 0)
    /\ (Extracted /\ ~puzzle.some) => (pc = "failed" /\ exit = "panic")
    /\ pc \in {"extracted", "writing", "done"} => puzzle.some

\* extract returned None for the fetched document.
C7_Witness == Extracted /\ ~puzzle.some /\ Len(content) > 0

(***************************************************************************)
(* C8: the first failed write ends write_masked_puzzle with that error:    *)
(* no write is attempted after it, and the bytes in the file are the       *)
(* prefix of the complete output that the writes before it made (one byte  *)
(* each, the values being single digits).                                  *)
(***************************************************************************)
C8_FirstErrorEnds ==
    /\ [](sink.errors > 0 =>
            /\ sink.errors = 1
            /\ pc = "failed"
            /\ exit = "error"
            /\ IsPrefix(file.bytes, SpecOutput(puzzle.val))
            /\ Len(file.bytes) = sink.calls - 1)
    /\ [][sink.errors > 0 => (sink' = sink /\ file' = file)]_vars

\* A write failed after bytes had been written.
C8_Witness == sink.errors = 1 /\ Len(file.bytes) > 0 /\ sink.calls > 1

(***************************************************************************)
(* C9: the map keeps one value per token, that of the last match with the  *)
(* token in document order; the Puzzle is built of the last pid, the last  *)
(* cheat and the last editmask match.                                      *)
(***************************************************************************)
C9_LastWins ==
    Extracted =>
        LET ms == matches
        IN  /\ DOMAIN map = {ms[i].token : i \in 1..Len(ms)}
            /\ \A tok \in DOMAIN map : map[tok] = LastDigits(ms, tok)
            /\ puzzle.some =>
                  /\ puzzle.val.id = LastDigits(ms, PUZZLE_ID)
                  /\ LET cheat == LastDigits(ms, SOLUTION)
                         editmask == LastDigits(ms, MASK)
                     IN  /\ Len(puzzle.val.solution) = Len(cheat)
                         /\ Len(puzzle.val.mask) = Len(editmask)
                         /\ \A i \in 1..Len(cheat) :
                               puzzle.val.solution[i] = IntOf(cheat[i])
                         /\ \A i \in 1..Len(editmask) :
                               puzzle.val.mask[i] = (editmask[i] = "1")

\* A Puzzle was extracted from a document where two matches have the same
\* token and different digits.
C9_Witness ==
    /\ Extracted
    /\ puzzle.some
    /\ LET ms == matches
       IN  \E i, j \in 1..Len(ms) :
              /\ i < j
              /\ ms[i].token = ms[j].token
              /\ ms[i].digits # ms[j].digits

\* The match m lies within one fragment of the document.
RECURSIVE LenUpTo(_, _)
LenUpTo(frags, i) == IF i = 0 THEN 0 ELSE LenUpTo(frags, i - 1) + Len(frags[i])

WithinOneTag(m) ==
    \E i \in 1..Len(response) :
        /\ LenUpTo(response, i - 1) < m.start
        /\ m.end <= LenUpTo(response, i)

(***************************************************************************)
(* C10: every pair in the map comes from one input tag: the match of the   *)
(* pattern lies within one fragment of the document.                       *)
(***************************************************************************)
C10_PairsFromOneTag ==
    Extracted => \A i \in 1..Len(matches) : WithinOneTag(matches[i])

====
